---- MODULE Spec2Model ----
(***************************************************************************)
(* Model of ledger/src/bank_forks_utils.rs: the bootstrap of a validator's *)
(* ledger state, either from the highest snapshot archive or from genesis. *)
(* One call of load() is followed step by step (pc); the filesystem (the   *)
(* snapshot staging directory and the archive output directory) persists   *)
(* across calls and across process restarts.                               *)
(***************************************************************************)
EXTENDS Integers, Sequences, FiniteSets, TLC

\* ------------------------------------------------------------- bounds
MaxSlot == 2
MaxHash == 2
MaxArchives == 1
MaxStagingFiles == 1

Slots == 1..MaxSlot
Hashes == 1..MaxHash
StagingFiles == 1..MaxStagingFiles

\* ------------------------------------------------------------- values
\* Option<T>: None is the empty sequence, Some(x) a one-element sequence.
None == <<>>
Some(x) == <<x>>
IsSome(o) == Len(o) = 1
Unwrap(o) == o[1]

\* Result<T, E>
Ok(v) == [ok |-> TRUE, val |-> v]
Err(e) == [ok |-> FALSE, err |-> e]

ArchiveFormats == {"TarBzip2", "TarZstd"}

\* A snapshot archive file; its name carries the slot, the hash and the format.
ArchiveFiles == [slot : Slots, hash : Hashes, format : ArchiveFormats]

\* The only SnapshotConfig of the model: where staging and archives live.
TheSnapshotConfig ==
    [snapshot_path |-> "snapshot_path",
     snapshot_package_output_path |-> "snapshot_package_output_path"]

SnapshotConfigs == {None, Some(TheSnapshotConfig)}
AccountPaths == {<<>>, <<"accounts">>}
ShrinkPaths == {None, Some(<<"shrink">>)}
ProcessOptionsSet == [accounts_db_test_hash_calculation : BOOLEAN]
TransactionStatusSenders == {None, Some("transaction_status_sender")}
CacheBlockMetaSenders == {None, Some("cache_block_meta_sender")}

\* The errors of the blockstore processor (two of its variants).
BlockstoreProcessorErrors == {"FailedToLoadEntries", "InvalidBlock"}

\* What bank_from_archive can decode: a bank at some slot, with the accounts
\* hash it stores and no shrink paths yet.
Banks == [slot : Slots, accounts_hash : Hashes, shrink_paths : {None}]

\* The bank forks a replay yields, rooted where the replay started.
BankForks(root) == [root |-> root]
GenesisSlot == 0

\* ------------------------------------------------------------- state
VARIABLES
    pc,                         \* position inside load(), or "idle" / "done"
    snapshot_config,            \* arguments of the current call
    account_paths,
    shrink_paths,
    process_options,
    transaction_status_sender,
    cache_block_meta_sender,
    snapshot_dir,               \* filesystem: snapshot_config.snapshot_path
    archive_dir,                \* filesystem: snapshot_package_output_path
    archive,                    \* what the locator returned (Option)
    deserialized_bank,          \* Option<Bank>
    trace,                      \* collaborator calls of this call, in order
    log,                        \* log records of this call, in order
    outcome                     \* how the call ended, and the value returned

vars == <<pc, snapshot_config, account_paths, shrink_paths, process_options,
          transaction_status_sender, cache_block_meta_sender, snapshot_dir,
          archive_dir, archive, deserialized_bank, trace, log, outcome>>

args == <<snapshot_config, account_paths, shrink_paths, process_options,
          transaction_status_sender, cache_block_meta_sender>>
fs == <<snapshot_dir, archive_dir>>

Pending == [kind |-> "pending", value |-> None]
Returned(v) == [kind |-> "returned", value |-> Some(v)]
\* process::exit(1)
Exited == [kind |-> "exit", value |-> None]
\* a panic raised by expect()
Panicked == [kind |-> "panic", value |-> None]

Call(fn, a, ret) == [fn |-> fn, args |-> a, ret |-> ret]
LogRec(level, msg, a) == [level |-> level, msg |-> msg, args |-> a]

Init ==
    /\ pc = "idle"
    /\ snapshot_config = None
    /\ account_paths = <<>>
    /\ shrink_paths = None
    /\ process_options = [accounts_db_test_hash_calculation |-> FALSE]
    /\ transaction_status_sender = None
    /\ cache_block_meta_sender = None
    /\ snapshot_dir = [exists |-> FALSE, files |-> {}]
    /\ archive_dir = {}
    /\ archive = None
    /\ deserialized_bank = None
    /\ trace = <<>>
    /\ log = <<>>
    /\ outcome = Pending

\* ------------------------------------------------------------- helpers
\* Mutant of to_loadresult: the snapshot slot and hash are dropped.
to_loadresult_NoAnchor(bpr, snapshot_slot_and_hash) ==
    IF bpr.ok
    THEN Ok(<<bpr.val[1], bpr.val[2], None>>)
    ELSE bpr

\* Mutant of to_loadresult: a replay error is replaced by another error.
to_loadresult_MapErr(bpr, snapshot_slot_and_hash) ==
    IF bpr.ok
    THEN Ok(<<bpr.val[1], bpr.val[2], snapshot_slot_and_hash>>)
    ELSE Err("LoadFailed")

\* to_loadresult: attach the snapshot slot and hash to a successful result.
to_loadresult(bpr, snapshot_slot_and_hash) ==
    IF bpr.ok
    THEN Ok(<<bpr.val[1], bpr.val[2], snapshot_slot_and_hash>>)
    ELSE bpr

\* load: `if let Some(snapshot_config) = snapshot_config.as_ref()`
HasSnapshotConfig(cfg) == IsSome(cfg)

\* Mutant of AccountPathsEmpty: the check is left out.
AccountPathsEmpty_Never(paths) == FALSE

\* load_from_snapshot: `account_paths.is_empty()`
AccountPathsEmpty(paths) == Len(paths) = 0

\* load_from_snapshot: (bank.slot(), bank.get_accounts_hash())
SlotAndHash(bank) == <<bank.slot, bank.accounts_hash>>

\* Mutant of SnapshotMismatch: only the hashes are compared.
SnapshotMismatch_HashOnly(bank_slot_and_hash, archive_slot, archive_hash) ==
    bank_slot_and_hash[2] # archive_hash

\* load_from_snapshot: `deserialized_bank_slot_and_hash != (archive_slot, archive_hash)`
SnapshotMismatch(bank_slot_and_hash, archive_slot, archive_hash) ==
    bank_slot_and_hash # <<archive_slot, archive_hash>>

\* snapshot_utils::get_highest_snapshot_archive_path: the archive of the
\* highest slot, with what its name claims; None when there is no archive.
get_highest_snapshot_archive_path(dir) ==
    IF dir = {} THEN {None}
    ELSE {Some(<<f, <<f.slot, f.hash, f.format>>>>) :
            f \in {g \in dir : \A h \in dir : h.slot <= g.slot}}

\* blockstore_processor::process_blockstore*: bank forks and a leader
\* schedule cache, or an error.
BlockstoreProcessorResults(root) ==
    {Ok(<<BankForks(root), "leader_schedule_cache">>)}
        \cup {Err(e) : e \in BlockstoreProcessorErrors}

\* snapshot_utils::bank_from_archive: a bank, or an error.
BankFromArchiveResults ==
    {Ok(b) : b \in Banks} \cup {Err("SnapshotError")}

\* fs::remove_dir_all: on success the directory is gone; on failure it is
\* still there with whatever was not removed (or was never there).
RemoveDirAllResults(dir) ==
    IF dir.exists
    THEN {<<Ok("unit"), [exists |-> FALSE, files |-> {}]>>}
            \cup {<<Err("io"), [exists |-> TRUE, files |-> left]>> :
                    left \in SUBSET dir.files}
    ELSE {<<Err("NotFound"), dir>>}

\* fs::create_dir_all: an existing directory is left as it is.
CreateDirAllResults(dir) ==
    IF dir.exists
    THEN {<<Ok("unit"), dir>>}
    ELSE {<<Ok("unit"), [exists |-> TRUE, files |-> {}]>>, <<Err("io"), dir>>}

\* ------------------------------------------------------------- environment
\* Between two boots: a snapshot archive appears in the output directory.
\* The node packages its archives in one format (SnapshotConfig's archive
\* format), so the archives of a directory share their format.
AddArchive ==
    /\ pc = "idle"
    /\ Cardinality(archive_dir) < MaxArchives
    /\ \E f \in ArchiveFiles \ archive_dir :
          /\ \A g \in archive_dir : g.format = f.format
          /\ archive_dir' = archive_dir \cup {f}
    /\ UNCHANGED <<pc, args, snapshot_dir, archive, deserialized_bank, trace,
                   log, outcome>>

\* Between two boots: an archive is purged from the output directory.
RemoveArchive ==
    /\ pc = "idle"
    /\ \E f \in archive_dir : archive_dir' = archive_dir \ {f}
    /\ UNCHANGED <<pc, args, snapshot_dir, archive, deserialized_bank, trace,
                   log, outcome>>

\* Between two boots: the running node leaves a file in the staging directory.
WriteStaging ==
    /\ pc = "idle"
    /\ snapshot_dir.exists
    /\ \E f \in StagingFiles \ snapshot_dir.files :
          snapshot_dir' = [snapshot_dir EXCEPT !.files = @ \cup {f}]
    /\ UNCHANGED <<pc, args, archive_dir, archive, deserialized_bank, trace,
                   log, outcome>>

\* ------------------------------------------------------------- load
\* The caller invokes load(...) with its arguments.
CallLoad ==
    /\ pc = "idle"
    /\ snapshot_config' \in SnapshotConfigs
    /\ account_paths' \in AccountPaths
    /\ shrink_paths' \in ShrinkPaths
    /\ process_options' \in ProcessOptionsSet
    /\ transaction_status_sender' \in TransactionStatusSenders
    /\ cache_block_meta_sender' \in CacheBlockMetaSenders
    /\ pc' = "load"
    /\ UNCHANGED <<fs, archive, deserialized_bank, trace, log, outcome>>

\* Mutant of LoadSnapshotsDisabled: archives are looked for although
\* snapshots are disabled.
LoadSnapshotsDisabled_Locate ==
    /\ pc = "load"
    /\ snapshot_config = None
    /\ pc' = "get_highest_snapshot_archive_path"
    /\ UNCHANGED <<args, fs, archive, deserialized_bank, trace, log, outcome>>

\* load, snapshot_config is None: "Snapshots disabled; will load from genesis".
LoadSnapshotsDisabled ==
    /\ pc = "load"
    /\ ~HasSnapshotConfig(snapshot_config)
    /\ log' = Append(log, LogRec("info", "Snapshots disabled; will load from genesis", <<>>))
    /\ pc' = "load_from_genesis"
    /\ UNCHANGED <<args, fs, archive, deserialized_bank, trace, outcome>>

\* load, snapshot_config is Some: `let _ = fs::remove_dir_all(snapshot_path)`,
\* whose result is dropped.
LoadRemoveSnapshotDir ==
    /\ pc = "load"
    /\ HasSnapshotConfig(snapshot_config)
    /\ \E r \in RemoveDirAllResults(snapshot_dir) :
          /\ snapshot_dir' = r[2]
          /\ trace' = Append(trace, Call("remove_dir_all",
                                <<Unwrap(snapshot_config).snapshot_path>>, r[1]))
    /\ log' = Append(log, LogRec("info", "Initializing snapshot path",
                                  <<Unwrap(snapshot_config).snapshot_path>>))
    /\ pc' = "create_dir_all"
    /\ UNCHANGED <<args, archive_dir, archive, deserialized_bank, outcome>>

\* load: `fs::create_dir_all(snapshot_path)` succeeds.
LoadCreateSnapshotDirOk ==
    /\ pc = "create_dir_all"
    /\ \E r \in CreateDirAllResults(snapshot_dir) :
          /\ r[1].ok
          /\ snapshot_dir' = r[2]
          /\ trace' = Append(trace, Call("create_dir_all",
                                <<Unwrap(snapshot_config).snapshot_path>>, r[1]))
    /\ pc' = "get_highest_snapshot_archive_path"
    /\ UNCHANGED <<args, archive_dir, archive, deserialized_bank, log, outcome>>

\* Mutant of LoadCreateSnapshotDirFail: the failure is logged and the call
\* goes on to look for an archive.
LoadCreateSnapshotDirFail_Ignored ==
    /\ pc = "create_dir_all"
    /\ ~snapshot_dir.exists
    /\ trace' = Append(trace, Call("create_dir_all",
                  <<Unwrap(snapshot_config).snapshot_path>>, Err("io")))
    /\ log' = Append(log, LogRec("warn", "Couldn't create snapshot directory", <<>>))
    /\ pc' = "get_highest_snapshot_archive_path"
    /\ UNCHANGED <<args, fs, archive, deserialized_bank, outcome>>

\* load: `fs::create_dir_all(snapshot_path)` fails and expect() panics.
LoadCreateSnapshotDirFail ==
    /\ pc = "create_dir_all"
    /\ \E r \in CreateDirAllResults(snapshot_dir) :
          /\ ~r[1].ok
          /\ snapshot_dir' = r[2]
          /\ trace' = Append(trace, Call("create_dir_all",
                                <<Unwrap(snapshot_config).snapshot_path>>, r[1]))
    /\ log' = Append(log, LogRec("panic", "Couldn't create snapshot directory", <<>>))
    /\ outcome' = Panicked
    /\ pc' = "done"
    /\ UNCHANGED <<args, archive_dir, archive, deserialized_bank>>

\* Mutant of LoadArchiveFound: the archive format handed on is a fixed one,
\* not the one the locator reported.
LoadArchiveFound_FixedFormat ==
    /\ pc = "get_highest_snapshot_archive_path"
    /\ \E r \in get_highest_snapshot_archive_path(archive_dir) :
          /\ IsSome(r)
          /\ archive' = Some(<<Unwrap(r)[1],
                               <<Unwrap(r)[2][1], Unwrap(r)[2][2], "TarBzip2">>>>)
          /\ trace' = Append(trace, Call("get_highest_snapshot_archive_path",
                        <<Unwrap(snapshot_config).snapshot_package_output_path>>, r))
          /\ log' = Append(log, LogRec("info", "Loading snapshot package",
                                        <<Unwrap(r)[1]>>))
    /\ pc' = "load_from_snapshot"
    /\ UNCHANGED <<args, fs, deserialized_bank, outcome>>

\* load: the locator finds an archive; load_from_snapshot is entered with it.
LoadArchiveFound ==
    /\ pc = "get_highest_snapshot_archive_path"
    /\ \E r \in get_highest_snapshot_archive_path(archive_dir) :
          /\ IsSome(r)
          /\ archive' = r
          /\ trace' = Append(trace, Call("get_highest_snapshot_archive_path",
                        <<Unwrap(snapshot_config).snapshot_package_output_path>>, r))
          /\ log' = Append(log, LogRec("info", "Loading snapshot package",
                                        <<Unwrap(r)[1]>>))
    /\ pc' = "load_from_snapshot"
    /\ UNCHANGED <<args, fs, deserialized_bank, outcome>>

\* Mutant of LoadNoArchive: a missing archive is taken for a fatal condition.
LoadNoArchive_Fatal ==
    /\ pc = "get_highest_snapshot_archive_path"
    /\ archive_dir = {}
    /\ trace' = Append(trace, Call("get_highest_snapshot_archive_path",
                  <<Unwrap(snapshot_config).snapshot_package_output_path>>, None))
    /\ log' = Append(log, LogRec("error", "No snapshot package available", <<>>))
    /\ outcome' = [kind |-> "exit", value |-> None]
    /\ pc' = "done"
    /\ UNCHANGED <<args, fs, archive, deserialized_bank>>

\* load: the locator finds nothing:
\* "No snapshot package available; will load from genesis".
LoadNoArchive ==
    /\ pc = "get_highest_snapshot_archive_path"
    /\ \E r \in get_highest_snapshot_archive_path(archive_dir) :
          /\ ~IsSome(r)
          /\ trace' = Append(trace, Call("get_highest_snapshot_archive_path",
                        <<Unwrap(snapshot_config).snapshot_package_output_path>>, r))
    /\ log' = Append(log, LogRec("info",
                  "No snapshot package available; will load from genesis", <<>>))
    /\ pc' = "load_from_genesis"
    /\ UNCHANGED <<args, fs, archive, deserialized_bank, outcome>>

\* ------------------------------------------------------------- load_from_genesis
\* process_blockstore takes the block-metadata sender only; its result goes
\* through to_loadresult with no snapshot slot and hash.
LoadFromGenesis ==
    /\ pc = "load_from_genesis"
    /\ \E bpr \in BlockstoreProcessorResults(GenesisSlot) :
          /\ trace' = Append(trace, Call("process_blockstore",
                        <<account_paths, process_options, cache_block_meta_sender>>,
                        bpr))
          /\ outcome' = Returned(to_loadresult(bpr, None))
    /\ log' = Append(log, LogRec("info", "Processing ledger from genesis", <<>>))
    /\ pc' = "done"
    /\ UNCHANGED <<args, fs, archive, deserialized_bank>>

\* ------------------------------------------------------------- load_from_snapshot
archive_filename == Unwrap(archive)[1]
archive_slot == Unwrap(archive)[2][1]
archive_hash == Unwrap(archive)[2][2]
archive_format == Unwrap(archive)[2][3]

\* account_paths is empty: "Account paths not present when booting from
\* snapshot", process::exit(1).
SnapshotNoAccountPaths ==
    /\ pc = "load_from_snapshot"
    /\ AccountPathsEmpty(account_paths)
    /\ log' = Append(log, LogRec("error",
                  "Account paths not present when booting from snapshot", <<>>))
    /\ outcome' = Exited
    /\ pc' = "done"
    /\ UNCHANGED <<args, fs, archive, deserialized_bank, trace>>

\* snapshot_utils::bank_from_archive(...) returns a bank.
SnapshotDecodeOk ==
    /\ pc = "load_from_snapshot"
    /\ ~AccountPathsEmpty(account_paths)
    /\ \E r \in BankFromArchiveResults :
          /\ r.ok
          /\ deserialized_bank' = Some(r.val)
          /\ trace' = Append(trace, Call("bank_from_archive",
                        <<account_paths, Unwrap(snapshot_config).snapshot_path,
                          archive_filename, archive_format>>, r))
    /\ pc' = "set_shrink_paths"
    /\ UNCHANGED <<args, fs, archive, log, outcome>>

\* Mutant of SnapshotDecodeFail: a decode failure falls back to genesis.
SnapshotDecodeFail_Fallback ==
    /\ pc = "load_from_snapshot"
    /\ Len(account_paths) # 0
    /\ trace' = Append(trace, Call("bank_from_archive",
                  <<account_paths, Unwrap(snapshot_config).snapshot_path,
                    Unwrap(archive)[1], Unwrap(archive)[2][3]>>, Err("SnapshotError")))
    /\ log' = Append(log, LogRec("warn", "Load from snapshot failed", <<>>))
    /\ pc' = "load_from_genesis"
    /\ UNCHANGED <<args, fs, archive, deserialized_bank, outcome>>

\* snapshot_utils::bank_from_archive(...) fails:
\* expect("Load from snapshot failed") panics.
SnapshotDecodeFail ==
    /\ pc = "load_from_snapshot"
    /\ ~AccountPathsEmpty(account_paths)
    /\ \E r \in BankFromArchiveResults :
          /\ ~r.ok
          /\ trace' = Append(trace, Call("bank_from_archive",
                        <<account_paths, Unwrap(snapshot_config).snapshot_path,
                          archive_filename, archive_format>>, r))
    /\ log' = Append(log, LogRec("panic", "Load from snapshot failed", <<>>))
    /\ outcome' = Panicked
    /\ pc' = "done"
    /\ UNCHANGED <<args, fs, archive, deserialized_bank>>

\* `if let Some(shrink_paths) = shrink_paths { bank.set_shrink_paths(..) }`
SnapshotSetShrinkPaths ==
    /\ pc = "set_shrink_paths"
    /\ IF IsSome(shrink_paths)
       THEN /\ deserialized_bank' =
                  Some([Unwrap(deserialized_bank) EXCEPT !.shrink_paths = shrink_paths])
            /\ trace' = Append(trace, Call("set_shrink_paths",
                                  <<Unwrap(shrink_paths)>>, "unit"))
       ELSE UNCHANGED <<deserialized_bank, trace>>
    /\ pc' = "update_accounts_hash"
    /\ UNCHANGED <<args, fs, archive, log, outcome>>

\* Mutant of SnapshotUpdateAccountsHash: the hash is recalculated whatever
\* the option says.
SnapshotUpdateAccountsHash_Unconditional ==
    /\ pc = "update_accounts_hash"
    /\ \E h \in Hashes :
          /\ deserialized_bank' =
                Some([Unwrap(deserialized_bank) EXCEPT !.accounts_hash = h])
          /\ trace' = Append(trace, Call("update_accounts_hash_with_index_option",
                                <<FALSE, TRUE>>, h))
    /\ pc' = "compare"
    /\ UNCHANGED <<args, fs, archive, log, outcome>>

\* `if process_options.accounts_db_test_hash_calculation
\*      { bank.update_accounts_hash_with_index_option(false, true) }`
\* The recalculation over the whole index yields some hash h, which the bank
\* stores as its accounts hash.
SnapshotUpdateAccountsHash ==
    /\ pc = "update_accounts_hash"
    /\ IF process_options.accounts_db_test_hash_calculation
       THEN \E h \in Hashes :
              /\ deserialized_bank' =
                    Some([Unwrap(deserialized_bank) EXCEPT !.accounts_hash = h])
              /\ trace' = Append(trace,
                              Call("update_accounts_hash_with_index_option",
                                   <<FALSE, TRUE>>, h))
       ELSE UNCHANGED <<deserialized_bank, trace>>
    /\ pc' = "compare"
    /\ UNCHANGED <<args, fs, archive, log, outcome>>

\* Mutant of SnapshotMismatchExit: on a mismatch the call switches to
\* genesis replay.
SnapshotMismatchExit_Fallback ==
    /\ pc = "compare"
    /\ <<Unwrap(deserialized_bank).slot, Unwrap(deserialized_bank).accounts_hash>>
          # <<Unwrap(archive)[2][1], Unwrap(archive)[2][2]>>
    /\ log' = Append(log, LogRec("warn", "Snapshot has mismatch", <<>>))
    /\ pc' = "load_from_genesis"
    /\ UNCHANGED <<args, fs, archive, deserialized_bank, trace, outcome>>

\* Mutant of SnapshotMismatchExit: the mismatch is returned as an error.
SnapshotMismatchExit_ReturnsErr ==
    /\ pc = "compare"
    /\ <<Unwrap(deserialized_bank).slot, Unwrap(deserialized_bank).accounts_hash>>
          # <<Unwrap(archive)[2][1], Unwrap(archive)[2][2]>>
    /\ outcome' = [kind |-> "returned", value |-> Some(Err("SnapshotMismatch"))]
    /\ pc' = "done"
    /\ UNCHANGED <<args, fs, archive, deserialized_bank, trace, log>>

\* The decoded (slot, hash) differs from the archive's: "Snapshot has
\* mismatch" with the archive hash and the decoded pair, process::exit(1).
SnapshotMismatchExit ==
    /\ pc = "compare"
    /\ SnapshotMismatch(SlotAndHash(Unwrap(deserialized_bank)), archive_slot, archive_hash)
    /\ log' = Append(log, LogRec("error", "Snapshot has mismatch",
                  [archive_hash |-> archive_hash,
                   deserialized_slot |-> SlotAndHash(Unwrap(deserialized_bank))[1],
                   deserialized_hash |-> SlotAndHash(Unwrap(deserialized_bank))[2]]))
    /\ outcome' = Exited
    /\ pc' = "done"
    /\ UNCHANGED <<args, fs, archive, deserialized_bank, trace>>

\* Mutant of SnapshotProcessBlockstore: the comparison is left out and
\* replay starts from whatever was decoded.
SnapshotProcessBlockstore_Unchecked ==
    /\ pc = "compare"
    /\ \E bpr \in BlockstoreProcessorResults(Unwrap(deserialized_bank).slot) :
          /\ trace' = Append(trace, Call("process_blockstore_from_root",
                        <<Unwrap(deserialized_bank), process_options,
                          transaction_status_sender, cache_block_meta_sender>>, bpr))
          /\ outcome' = Returned(to_loadresult(bpr,
                            Some(SlotAndHash(Unwrap(deserialized_bank)))))
    /\ pc' = "done"
    /\ UNCHANGED <<args, fs, archive, deserialized_bank, log>>

\* Mutant of SnapshotProcessBlockstore: replay starts from the bank as
\* bank_from_archive returned it, not from the one that was compared.
SnapshotProcessBlockstore_StaleBank ==
    /\ pc = "compare"
    /\ <<Unwrap(deserialized_bank).slot, Unwrap(deserialized_bank).accounts_hash>>
          = <<Unwrap(archive)[2][1], Unwrap(archive)[2][2]>>
    /\ \E bpr \in BlockstoreProcessorResults(Unwrap(deserialized_bank).slot),
          i \in DOMAIN trace :
          /\ trace[i].fn = "bank_from_archive"
          /\ trace' = Append(trace, Call("process_blockstore_from_root",
                        <<trace[i].ret.val, process_options,
                          transaction_status_sender, cache_block_meta_sender>>, bpr))
          /\ outcome' = Returned(to_loadresult(bpr,
                            Some(SlotAndHash(Unwrap(deserialized_bank)))))
    /\ pc' = "done"
    /\ UNCHANGED <<args, fs, archive, deserialized_bank, log>>

\* The pairs are equal: process_blockstore_from_root replays from the decoded
\* bank, with both senders; its result goes through to_loadresult with the
\* decoded slot and hash.
SnapshotProcessBlockstore ==
    /\ pc = "compare"
    /\ ~SnapshotMismatch(SlotAndHash(Unwrap(deserialized_bank)), archive_slot, archive_hash)
    /\ \E bpr \in BlockstoreProcessorResults(Unwrap(deserialized_bank).slot) :
          /\ trace' = Append(trace, Call("process_blockstore_from_root",
                        <<Unwrap(deserialized_bank), process_options,
                          transaction_status_sender, cache_block_meta_sender>>, bpr))
          /\ outcome' = Returned(to_loadresult(bpr,
                            Some(SlotAndHash(Unwrap(deserialized_bank)))))
    /\ pc' = "done"
    /\ UNCHANGED <<args, fs, archive, deserialized_bank, log>>

\* ------------------------------------------------------------- between calls
ResetCall ==
    /\ pc' = "idle"
    /\ snapshot_config' = None
    /\ account_paths' = <<>>
    /\ shrink_paths' = None
    /\ process_options' = [accounts_db_test_hash_calculation |-> FALSE]
    /\ transaction_status_sender' = None
    /\ cache_block_meta_sender' = None
    /\ archive' = None
    /\ deserialized_bank' = None
    /\ trace' = <<>>
    /\ log' = <<>>
    /\ outcome' = Pending
    /\ UNCHANGED fs

\* load returned to its caller, which may call it again later.
Finish ==
    /\ pc = "done"
    /\ outcome.kind = "returned"
    /\ ResetCall

\* The process ended; the operator starts it again.
Restart ==
    /\ pc = "done"
    /\ outcome.kind \in {"exit", "panic"}
    /\ ResetCall

Next ==
    \/ AddArchive
    \/ RemoveArchive
    \/ WriteStaging
    \/ CallLoad
    \/ LoadSnapshotsDisabled
    \/ LoadRemoveSnapshotDir
    \/ LoadCreateSnapshotDirOk
    \/ LoadCreateSnapshotDirFail
    \/ LoadArchiveFound
    \/ LoadNoArchive
    \/ LoadFromGenesis
    \/ SnapshotNoAccountPaths
    \/ SnapshotDecodeOk
    \/ SnapshotDecodeFail
    \/ SnapshotSetShrinkPaths
    \/ SnapshotUpdateAccountsHash
    \/ SnapshotMismatchExit
    \/ SnapshotProcessBlockstore
    \/ Finish
    \/ Restart

Spec == Init /\ [][Next]_vars

\* ------------------------------------------------------------- properties
Invoked(fn) == \E i \in DOMAIN trace : trace[i].fn = fn
ReplayFns == {"process_blockstore", "process_blockstore_from_root"}
ReplayInvoked == \E i \in DOMAIN trace : trace[i].fn \in ReplayFns
Done == pc = "done"
Decoded == IsSome(deserialized_bank)
DecodedPair ==
    <<Unwrap(deserialized_bank).slot, Unwrap(deserialized_bank).accounts_hash>>
ClaimedPair == <<Unwrap(archive)[2][1], Unwrap(archive)[2][2]>>
ReturnedValue == Unwrap(outcome.value)

\* C1: when decode succeeded and the decoded (slot, accounts hash) differs
\* from the archive's claimed (slot, hash) in either component, the call ends
\* with process::exit: no value is returned and neither replay is invoked.
C1_MismatchTerminates ==
    (Done /\ Decoded /\ DecodedPair # ClaimedPair)
        => /\ outcome.kind = "exit"
           /\ outcome.value = None
           /\ ~ReplayInvoked

\* C1 witness: the call exited on a mismatch of the slot alone.
C1_Witness ==
    /\ Done /\ Decoded
    /\ DecodedPair[1] # ClaimedPair[1]
    /\ DecodedPair[2] = ClaimedPair[2]
    /\ outcome.kind = "exit"

\* C2 as stated: when decode succeeded and the decoded pair equals the
\* claimed pair, the call returns a LoadedState whose anchor is that pair.
C2_MatchReturnsLoadedState ==
    (Done /\ Decoded /\ DecodedPair = ClaimedPair)
        => /\ outcome.kind = "returned"
           /\ ReturnedValue.ok
           /\ ReturnedValue.val[3] = Some(DecodedPair)

\* C2 amended: when decode succeeded and the decoded pair equals the claimed
\* pair, the process is not terminated and the call returns what catch-up
\* replay yields: on its success a LoadedState whose anchor is Some(pair), on
\* its failure the replay error.
C2_MatchReturnsAnchorOrReplayError ==
    (Done /\ Decoded /\ DecodedPair = ClaimedPair)
        => /\ outcome.kind = "returned"
           /\ trace[Len(trace)].fn = "process_blockstore_from_root"
           /\ LET r == trace[Len(trace)].ret
              IN  IF r.ok
                  THEN ReturnedValue = Ok(<<r.val[1], r.val[2], Some(DecodedPair)>>)
                  ELSE ReturnedValue = Err(r.err)

\* C2 witness: a verified snapshot was replayed and a LoadedState returned.
C2_Witness ==
    /\ Done /\ Decoded /\ DecodedPair = ClaimedPair
    /\ outcome.kind = "returned"
    /\ ReturnedValue.ok
    /\ ReturnedValue.val[3] = Some(ClaimedPair)

\* C3: with no snapshot_config the call goes straight to genesis replay: the
\* staging directory is neither removed nor created, the locator is not
\* queried, nothing is decoded, and a successful result carries no anchor.
C3_NoConfigGenesisOnly ==
    (pc # "idle" /\ snapshot_config = None)
        => /\ pc \in {"load", "load_from_genesis", "done"}
           /\ ~Invoked("remove_dir_all")
           /\ ~Invoked("create_dir_all")
           /\ ~Invoked("get_highest_snapshot_archive_path")
           /\ ~Invoked("bank_from_archive")
           /\ archive = None
           /\ Done => /\ outcome.kind = "returned"
                      /\ trace[Len(trace)].fn = "process_blockstore"
                      /\ ReturnedValue.ok => ReturnedValue.val[3] = None

\* C3 witness: snapshots disabled while an archive is on disk, and genesis
\* replay returned a LoadedState.
C3_Witness ==
    /\ Done /\ snapshot_config = None
    /\ archive_dir # {}
    /\ outcome.kind = "returned" /\ ReturnedValue.ok

LocatorFoundNothing ==
    \E i \in DOMAIN trace :
        /\ trace[i].fn = "get_highest_snapshot_archive_path"
        /\ trace[i].ret = None

\* C4: with a snapshot_config, the staging directory created and no archive
\* found, the call falls back to genesis replay: nothing is decoded, the
\* process is not terminated, and a successful result carries no anchor.
C4_NoArchiveFallsBackToGenesis ==
    LocatorFoundNothing
        => /\ pc \in {"load_from_genesis", "done"}
           /\ ~Invoked("bank_from_archive")
           /\ Done => /\ outcome.kind = "returned"
                      /\ trace[Len(trace)].fn = "process_blockstore"
                      /\ ReturnedValue.ok => ReturnedValue.val[3] = None

\* C4 witness: snapshots enabled, no archive, genesis replay returned.
C4_Witness ==
    /\ Done /\ IsSome(snapshot_config) /\ LocatorFoundNothing
    /\ outcome.kind = "returned" /\ ReturnedValue.ok
    /\ ReturnedValue.val[3] = None

\* C5 as stated: whenever restoration begins (the locator is about to be
\* queried, or a found archive is about to be decoded) the staging directory
\* holds no file.
C5_StagingEmptyAtRestoration ==
    pc \in {"get_highest_snapshot_archive_path", "load_from_snapshot"}
        => snapshot_dir.files = {}

\* C6: when an archive was found and account_paths is empty the call ends
\* with process::exit before anything else: no decode, no shrink paths, no
\* rehash, no replay of either kind, no value.
C6_EmptyAccountPathsTerminates ==
    (IsSome(archive) /\ Len(account_paths) = 0)
        => /\ pc \in {"load_from_snapshot", "done"}
           /\ ~Invoked("bank_from_archive")
           /\ ~Invoked("set_shrink_paths")
           /\ ~Invoked("update_accounts_hash_with_index_option")
           /\ ~ReplayInvoked
           /\ deserialized_bank = None
           /\ Done => (outcome.kind = "exit" /\ outcome.value = None)

\* C6 witness: an archive was found, account_paths was empty, the call exited.
C6_Witness ==
    /\ Done /\ IsSome(archive) /\ Len(account_paths) = 0
    /\ outcome.kind = "exit"

DecodeFailed ==
    \E i \in DOMAIN trace :
        trace[i].fn = "bank_from_archive" /\ ~trace[i].ret.ok

\* C7: when the decode of a found archive fails the call ends abnormally (the
\* panic of expect): no value is returned and neither replay is invoked.
C7_DecodeFailureTerminates ==
    DecodeFailed
        => /\ Done
           /\ outcome.kind = "panic"
           /\ outcome.value = None
           /\ ~ReplayInvoked

\* C7 witness: an archive was found and its decode failed.
C7_Witness ==
    /\ Done /\ IsSome(archive) /\ DecodeFailed
    /\ outcome.kind = "panic"

\* The call entered load_from_snapshot (the locator returned an archive).
SnapshotPath == IsSome(archive)

\* C8 as stated: a call that took the snapshot path never returns an error.
C8_SnapshotPathNeverReturnsError ==
    (Done /\ SnapshotPath /\ outcome.kind = "returned") => ReturnedValue.ok

\* C8 amended: the output of load is a LoadedState or a structured replay
\* error, on either path: a returned error is always the error the replay
\* collaborator of that path reported (process_blockstore on the genesis
\* path, process_blockstore_from_root on the snapshot path); the fatal
\* conditions of the snapshot path never come back as a returned error.
C8_ReturnedErrorIsReplayError ==
    (Done /\ outcome.kind = "returned" /\ ~ReturnedValue.ok)
        => LET last == trace[Len(trace)]
           IN  /\ last.fn = IF SnapshotPath THEN "process_blockstore_from_root"
                                            ELSE "process_blockstore"
               /\ ~last.ret.ok
               /\ ReturnedValue = Err(last.ret.err)
               /\ SnapshotPath => (Decoded /\ DecodedPair = ClaimedPair)

\* C8 witness: a call on the snapshot path returned a structured error.
C8_Witness ==
    /\ Done /\ SnapshotPath
    /\ outcome.kind = "returned"
    /\ ~ReturnedValue.ok

\* C9: an error of the replay collaborator, in genesis replay or in catch-up
\* replay, ends the call by returning that same error: the process is not
\* terminated and no LoadedState (hence no anchor) is returned.
C9_ReplayErrorReturnedUnchanged ==
    \A i \in DOMAIN trace :
        (trace[i].fn \in ReplayFns /\ ~trace[i].ret.ok)
            => /\ Done
               /\ outcome.kind = "returned"
               /\ ReturnedValue = trace[i].ret
               /\ ReturnedValue \in {Err(e) : e \in BlockstoreProcessorErrors}

\* C9 witness: catch-up replay after a verified snapshot failed and its
\* error was returned.
C9_Witness ==
    /\ Done /\ Decoded
    /\ trace[Len(trace)].fn = "process_blockstore_from_root"
    /\ ~trace[Len(trace)].ret.ok
    /\ outcome.kind = "returned"

\* The (transaction-status, block-metadata) senders a replay call was given.
\* process_blockstore has no transaction-status parameter: it gets none.
ReplaySenders(c) ==
    IF c.fn = "process_blockstore"
    THEN <<None, c.args[3]>>
    ELSE <<c.args[3], c.args[4]>>

\* C10 as stated: whichever replay is invoked receives exactly the two
\* senders the caller passed to load.
C10_SendersForwarded ==
    \A i \in DOMAIN trace :
        trace[i].fn \in ReplayFns
            => ReplaySenders(trace[i])
                 = <<transaction_status_sender, cache_block_meta_sender>>

\* The value load returned is a LoadedState.
ReturnedLoadedState ==
    Done /\ outcome.kind = "returned" /\ ReturnedValue.ok

\* C11: a returned LoadedState whose anchor is Some((s, h)) comes from the
\* snapshot path, after a decode, and (s, h) is both the archive's claimed
\* (slot, hash) and the decoded bank's (slot, accounts hash) as it stands after
\* any rehash; a LoadedState of the genesis path has no anchor.
C11_AnchorIsVerifiedPair ==
    ReturnedLoadedState
        => /\ ReturnedValue.val[3] # None
              => /\ SnapshotPath /\ Decoded
                 /\ trace[Len(trace)].fn = "process_blockstore_from_root"
                 /\ ReturnedValue.val[3] = Some(ClaimedPair)
                 /\ ReturnedValue.val[3] = Some(DecodedPair)
                 /\ process_options.accounts_db_test_hash_calculation
                      => \E i \in DOMAIN trace :
                            /\ trace[i].fn = "update_accounts_hash_with_index_option"
                            /\ trace[i].ret = DecodedPair[2]
           /\ trace[Len(trace)].fn = "process_blockstore"
              => ReturnedValue.val[3] = None

\* C11 witness: a LoadedState with an anchor was returned after a rehash that
\* changed the decoded bank's stored hash.
C11_Witness ==
    /\ ReturnedLoadedState
    /\ SnapshotPath
    /\ ReturnedValue.val[3] = Some(ClaimedPair)
    /\ \E i \in DOMAIN trace :
          /\ trace[i].fn = "bank_from_archive"
          /\ trace[i].ret.val.accounts_hash # ClaimedPair[2]

CreateDirFailed ==
    \E i \in DOMAIN trace :
        trace[i].fn = "create_dir_all" /\ ~trace[i].ret.ok

RemoveDirFailed ==
    \E i \in DOMAIN trace :
        trace[i].fn = "remove_dir_all" /\ ~trace[i].ret.ok

\* C12: when the creation of the staging directory fails the call ends
\* abnormally (the panic of expect) with the locator not queried, nothing
\* decoded, no replay of either kind and no value returned; a failure of the
\* removal before it does not end the call, which goes on to the creation and,
\* when that succeeds, to the locator.
C12_CreateDirFailureTerminates ==
    /\ CreateDirFailed
          => /\ Done
             /\ outcome.kind = "panic"
             /\ outcome.value = None
             /\ ~Invoked("get_highest_snapshot_archive_path")
             /\ ~Invoked("bank_from_archive")
             /\ ~ReplayInvoked
             /\ archive = None
    /\ (RemoveDirFailed /\ ~CreateDirFailed)
          => /\ pc = "create_dir_all" => outcome.kind = "pending"
             /\ pc # "create_dir_all" => Invoked("create_dir_all")
             /\ Done => Invoked("get_highest_snapshot_archive_path")

\* C12 witness: the staging directory could not be created and the call
\* panicked.
C12_Witness ==
    /\ Done /\ IsSome(snapshot_config) /\ CreateDirFailed
    /\ outcome.kind = "panic"

\* C12 second witness, as part of the same claim: the removal failed, the
\* creation succeeded and the call went on to return a value.
C12_RemovalFailureGoesOn ==
    /\ Done /\ RemoveDirFailed /\ ~CreateDirFailed
    /\ outcome.kind = "returned"

\* The place of each collaborator call in the order of one call of load.
StepRank(fn) ==
    CASE fn = "remove_dir_all" -> 1
      [] fn = "create_dir_all" -> 2
      [] fn = "get_highest_snapshot_archive_path" -> 3
      [] fn = "bank_from_archive" -> 4
      [] fn = "set_shrink_paths" -> 5
      [] fn = "update_accounts_hash_with_index_option" -> 6
      [] fn = "process_blockstore_from_root" -> 7
      [] fn = "process_blockstore" -> 8

\* C13: on the snapshot path the steps come in the order staging reset
\* (remove, create), locator, account_paths check, decode, shrink paths (when
\* given), rehash (when asked for), comparison, catch-up replay; catch-up
\* replay is invoked only on a decoded bank whose (slot, hash) equals the
\* claim, and it is given exactly that bank.
C13_SnapshotStepOrder ==
    SnapshotPath
        => LET fns == {trace[i].fn : i \in DOMAIN trace} IN
           /\ \A i \in 1..(Len(trace) - 1) :
                 StepRank(trace[i].fn) < StepRank(trace[i + 1].fn)
           /\ trace[1].fn = "remove_dir_all"
           /\ trace[2].fn = "create_dir_all"
           /\ trace[3].fn = "get_highest_snapshot_archive_path"
           /\ "bank_from_archive" \in fns
                 => (Len(account_paths) # 0 /\ trace[4].fn = "bank_from_archive")
           /\ Decoded <=> ("bank_from_archive" \in fns /\ trace[4].ret.ok)
           /\ (Decoded /\ pc \in {"update_accounts_hash", "compare", "done"})
                 => /\ "set_shrink_paths" \in fns <=> IsSome(shrink_paths)
                    /\ Unwrap(deserialized_bank).shrink_paths = shrink_paths
           /\ (Decoded /\ pc \in {"compare", "done"})
                 => ("update_accounts_hash_with_index_option" \in fns
                       <=> process_options.accounts_db_test_hash_calculation)
           /\ "process_blockstore_from_root" \in fns
                 => /\ Done /\ Decoded
                    /\ DecodedPair = ClaimedPair
                    /\ trace[Len(trace)].fn = "process_blockstore_from_root"
                    /\ trace[Len(trace)].args[1] = Unwrap(deserialized_bank)

\* C13 witness: a call that went through every step, shrink paths and rehash
\* included, and replayed from the verified bank.
C13_Witness ==
    /\ Done /\ SnapshotPath /\ Len(trace) = 7
    /\ trace[7].fn = "process_blockstore_from_root"
    /\ trace[4].ret.val.accounts_hash # trace[7].args[1].accounts_hash

Terminated == Done /\ outcome.kind \in {"exit", "panic"}
LastLog == log[Len(log)]

\* C14 as stated: every call that terminates the process has emitted a
\* diagnostic (an error record, or the message of the panic) as its last
\* record, and on a (slot, hash) mismatch that record holds the claimed slot,
\* the claimed hash, the decoded slot and the decoded hash.
C14_FatalDiagnostics ==
    Terminated
        => /\ Len(log) > 0
           /\ LastLog.level \in {"error", "panic"}
           /\ (Decoded /\ DecodedPair # ClaimedPair)
                 => /\ LastLog.msg = "Snapshot has mismatch"
                    /\ "archive_hash" \in DOMAIN LastLog.args
                    /\ LastLog.args.archive_hash = ClaimedPair[2]
                    /\ "deserialized_slot" \in DOMAIN LastLog.args
                    /\ LastLog.args.deserialized_slot = DecodedPair[1]
                    /\ "deserialized_hash" \in DOMAIN LastLog.args
                    /\ LastLog.args.deserialized_hash = DecodedPair[2]
                    /\ "archive_slot" \in DOMAIN LastLog.args
                    /\ LastLog.args.archive_slot = ClaimedPair[1]

RehashCalls ==
    {i \in DOMAIN trace : trace[i].fn = "update_accounts_hash_with_index_option"}

\* The bank as bank_from_archive returned it.
DecodedBankAsRead ==
    trace[CHOOSE i \in DOMAIN trace : trace[i].fn = "bank_from_archive"].ret.val

\* The hash the recalculation yielded.
RecalculatedHash == trace[CHOOSE i \in RehashCalls : TRUE].ret

\* C15: the full recalculation of the accounts hash runs exactly when
\* accounts_db_test_hash_calculation is set, once, after the decode and before
\* the comparison, which then reads the recalculated hash; when the
\* recalculated hash equals the stored one, the pair compared and the verdict
\* of the comparison are those of a call with the option unset.
C15_RehashOnlyOnOption ==
    /\ Cardinality(RehashCalls) <= 1
    /\ \A i \in RehashCalls :
          /\ process_options.accounts_db_test_hash_calculation
          /\ \E j \in 1..(i - 1) : trace[j].fn = "bank_from_archive"
          /\ \A j \in 1..(i - 1) : trace[j].fn # "process_blockstore_from_root"
    /\ (Decoded /\ pc \in {"compare", "done"})
          => /\ RehashCalls # {} <=> process_options.accounts_db_test_hash_calculation
             /\ DecodedPair[1] = DecodedBankAsRead.slot
             /\ DecodedPair[2] =
                   IF process_options.accounts_db_test_hash_calculation
                   THEN RecalculatedHash
                   ELSE DecodedBankAsRead.accounts_hash
             /\ (RehashCalls = {} \/ RecalculatedHash = DecodedBankAsRead.accounts_hash)
                   => /\ DecodedPair = <<DecodedBankAsRead.slot,
                                         DecodedBankAsRead.accounts_hash>>
                      /\ Done => (outcome.kind = "returned"
                                    <=> <<DecodedBankAsRead.slot,
                                          DecodedBankAsRead.accounts_hash>> = ClaimedPair)
             /\ Done => (outcome.kind = "exit" <=> DecodedPair # ClaimedPair)
             /\ Done => (outcome.kind = "returned" <=> DecodedPair = ClaimedPair)

\* C15 witness: the option was set, the recalculation ran and changed the
\* stored hash, and the comparison was decided by the recalculated hash.
C15_Witness ==
    /\ Done /\ Decoded
    /\ process_options.accounts_db_test_hash_calculation
    /\ Cardinality(RehashCalls) = 1
    /\ DecodedBankAsRead.accounts_hash = ClaimedPair[2]
    /\ RecalculatedHash # ClaimedPair[2]
    /\ DecodedBankAsRead.slot = ClaimedPair[1]
    /\ outcome.kind = "exit"

\* C15, the other half of the claim's case: the option was set on a bank whose
\* recalculated hash equals the stored one, and the call returned.
C15_OptionSetSameHash ==
    /\ Done /\ Decoded
    /\ process_options.accounts_db_test_hash_calculation
    /\ RecalculatedHash = DecodedBankAsRead.accounts_hash
    /\ outcome.kind = "returned"

CallCount(fns) == Cardinality({i \in DOMAIN trace : trace[i].fn \in fns})

\* The strategies of load: genesis bootstrap, snapshot restore.
GenesisEntered == pc = "load_from_genesis" \/ Invoked("process_blockstore")
SnapshotEntered == IsSome(archive)

NoRetryNoSwitch ==
    /\ CallCount({"get_highest_snapshot_archive_path"}) <= 1
    /\ CallCount({"bank_from_archive"}) <= 1
    /\ CallCount(ReplayFns) <= 1
    /\ ~(GenesisEntered /\ SnapshotEntered)
    /\ SnapshotEntered => ~Invoked("process_blockstore")

\* C16 as stated: the locator, the decode and the replay are each invoked at
\* most once, a finished call has entered exactly one of the two strategies,
\* and a call that entered snapshot restore never invokes genesis replay.
C16_ExactlyOneStrategy ==
    /\ NoRetryNoSwitch
    /\ Done => (GenesisEntered \/ SnapshotEntered)

\* C16 amended: the locator, the decode and the replay are each invoked at
\* most once, at most one of the two strategies is entered, exactly one in
\* every finished call except the one that ended at the creation of the
\* staging directory (which entered none), and a call that entered snapshot
\* restore never invokes genesis replay.
C16_AtMostOneStrategy ==
    /\ NoRetryNoSwitch
    /\ Done => ((GenesisEntered \/ SnapshotEntered) <=> ~CreateDirFailed)

\* C16 witness: a call that entered snapshot restore and ended on a mismatch
\* without any replay.
C16_Witness ==
    /\ Done /\ SnapshotEntered /\ Decoded
    /\ DecodedPair # ClaimedPair
    /\ CallCount(ReplayFns) = 0
    /\ CallCount({"bank_from_archive"}) = 1

\* C17: the descriptor a call works with is the one the locator reported in
\* that same call for the archive directory as it stands then: nothing is
\* carried over from an earlier call, the strategy follows from that report
\* alone, and the one descriptor supplies the file and format that are
\* decoded and the (slot, hash) the decoded bank is compared against.
C17_DescriptorIsFresh ==
    /\ pc = "idle" => archive = None
    /\ IsSome(archive)
          => /\ \E i \in DOMAIN trace :
                   /\ trace[i].fn = "get_highest_snapshot_archive_path"
                   /\ trace[i].ret = archive
             /\ Unwrap(archive)[1] \in archive_dir
             /\ Unwrap(archive)[2] = <<Unwrap(archive)[1].slot,
                                       Unwrap(archive)[1].hash,
                                       Unwrap(archive)[1].format>>
             /\ \A g \in archive_dir : g.slot <= Unwrap(archive)[1].slot
    /\ \A i \in DOMAIN trace :
          trace[i].fn = "get_highest_snapshot_archive_path"
             => /\ trace[i].ret = None => (archive_dir = {} /\ archive = None)
                /\ trace[i].ret # None => archive = trace[i].ret
    /\ (IsSome(snapshot_config) /\ GenesisEntered) => archive_dir = {}
    /\ SnapshotEntered => (IsSome(snapshot_config) /\ archive_dir # {})
    /\ \A i \in DOMAIN trace :
          trace[i].fn = "bank_from_archive"
             => /\ trace[i].args[3] = Unwrap(archive)[1]
                /\ trace[i].args[4] = Unwrap(archive)[1].format
    /\ (Done /\ Decoded)
          => (outcome.kind = "exit"
                <=> DecodedPair # <<Unwrap(archive)[1].slot, Unwrap(archive)[1].hash>>)

\* C17 witness: a call decoded the archive that is in the directory at that
\* call, in its own format, and returned after the comparison against its
\* claim.
C17_Witness ==
    /\ Done /\ Decoded
    /\ archive_dir = {Unwrap(archive)[1]}
    /\ Unwrap(archive)[1].format = "TarZstd"
    /\ \E i \in DOMAIN trace :
          trace[i].fn = "bank_from_archive" /\ trace[i].args[4] = "TarZstd"
    /\ outcome.kind = "returned"

====
